---- MODULE Spec2Model ----
(***************************************************************************)
(* numpty: a child process driven through a headless pty.                  *)
(*                                                                         *)
(*   Terminal (src/src/lib.rs)  the session object and its blocking calls  *)
(*   run_pty  (src/src/pty.rs)  spawn + the pump between pty and queues    *)
(*   run_term (src/src/term.rs) the Coordinator: terminal state + settle   *)
(*   Req/Reply (src/src/protocol.rs)                                       *)
(*                                                                         *)
(* Time.  The code works with Instants.  The model keeps every Instant     *)
(* relative to the current instant, so that time can pass for ever in a    *)
(* finite state space:                                                     *)
(*   since_now  = (current instant) - now        (now: term.rs:27)         *)
(*   req_until  = req_until - (current instant)  (term.rs:17), cut at 0:   *)
(*                0 means "the deadline has elapsed"                       *)
(* Tick lets one unit of time pass.  Elapsed times are cut at TimeCap,     *)
(* which is exact for every comparison with a wait of at most MaxWait.     *)
(*                                                                         *)
(* Option<T> is a sequence of length at most one: <<>> is None, <<x>> is   *)
(* Some(x).                                                                *)
(***************************************************************************)
EXTENDS Integers, Sequences, FiniteSets, TLC

\* ---------------------------------------------------------------- bounds
MaxWait   == 2    \* largest wait_first / wait_more a caller passes (time units)
MaxReqs   == 2    \* settle requests created in one behaviour
MaxChunks == 2    \* output chunks the child writes in one behaviour
OutCap    == 1    \* capacity of the output queue (1024 in lib.rs:64, scaled down)
MaxInputs == 1    \* input() calls in one behaviour of a whole session
MaxKeys   == 2    \* keys() calls in one behaviour of the pump
InCap     == 1    \* capacity of the input queue (1024 in lib.rs:63)
MaxBytes  == 3    \* length of the byte stream a child writes (byte-level harness)

\* ------------------------------------------------------- program constants
\* mpsc::channel(1) for requests
ReqCap == 1
\* Instant::now() + Duration::from_millis(9999999999): about 115 days, beyond
\* any run explored here.  Kept as a deadline that Tick never brings closer.
NoDeadline == 1000000

TimeCap == MaxWait + 1
\* The waits a caller passes.  (A wait of 0 sets a deadline that has elapsed
\* already; it is left out to keep the raised bounds checkable.)
Waits   == 1..MaxWait
ReqIds  == 1..MaxReqs
None    == <<>>
Some(x) == <<x>>

Min(a, b) == IF a < b THEN a ELSE b
Max(a, b) == IF a > b THEN a ELSE b

VARIABLES
    \* ---- Terminal (lib.rs:43-52) and its single calling thread
    cmd,            \* what the command does at exec time
    req_tx,         \* "None" | "Some"
    input_tx,       \* "None" | "Some"
    token,          \* the field Terminal.token: "None" | "Some"
    lines,          \* Option<grid>: the stored snapshot
    callerPc,       \* "idle" | "start_wait" | "settle_wait" | "keys_wait"
    myReq,          \* the request the blocked settle() waits on
    last,           \* what the last finished call returned
    keyBuf,         \* Option<Vec<u8>>: the data a suspended keys() is sending
    \* ---- channels and the cancellation token shared by the two tasks
    startCh,        \* oneshot start_tx/start_rx
    inputQ,         \* mpsc input queue
    outputQ,        \* mpsc output queue
    outTx,          \* output_tx still alive
    reqQ,           \* mpsc request queue
    reqTx,          \* some request sender still alive
    replyCh,        \* per request: "none" | "open" | "value" | "closed"
    replyVal,       \* per request: the Reply sent
    cancelled,      \* CancellationToken fired
    nextReq,        \* next request id
    \* ---- run_term (term.rs)
    termPc,         \* "none" | "run" | "done"
    maybe_waiting,  \* Option<Req>
    req_until,
    since_now,
    closed_output,
    vt,             \* the chunks fed to the interpreter, in order
    \* ---- run_pty (pty.rs)
    ptyPc,
    child,          \* "none" | "forked" | "running" | "stray" | "zombie" | "reaped"
    pipeW,          \* write end of the exec-error pipe: "none" | "open" | "closed"
    pipeBuf,        \* what the child wrote into the pipe
    s,              \* what the parent read from the pipe
    pipeEof,        \* the parent has read the pipe to EOF
    ptyOut,         \* bytes written by the child, not yet read from the master
    produced,       \* chunks the child has written
    sendBuf,        \* the chunk output_tx.send() is suspended on
    sighup,         \* SIGHUP sent to the child
    inRx,           \* input_rx still alive
    input,          \* the pending write buffer (pty.rs:114)
    written,        \* the bytes written to the pty master, in order
    nextIn,         \* next input chunk
    result,         \* what do_drive_child returned
    fds,            \* the supervisor's descriptors: "none" | "open" | "closed" |
                    \* "twice" (closed again after its release)
    \* ---- history (not program state)
    sinceOut,       \* time since the Coordinator last received a chunk
    sinceReq,       \* time since the Coordinator accepted the pending request
    sawOutput,      \* a chunk was received since the pending request was accepted
    replySends,     \* per request: number of replies sent
    startSends,     \* number of start outcomes sent
    received,       \* the bytes the pump has received from the input queue
    early,          \* a request pending when the output source was found
                    \* closed was replied to with time left to its deadline
    stream          \* the bytes read from the master so far (byte-level harness)

sessionVars == <<cmd, req_tx, input_tx, token, lines, callerPc, myReq, last,
                 keyBuf>>
chanVars    == <<startCh, inputQ, outputQ, outTx, reqQ, reqTx, replyCh, replyVal,
                 cancelled, nextReq>>
termVars    == <<termPc, maybe_waiting, req_until, since_now, closed_output, vt>>
ptyVars     == <<ptyPc, child, pipeW, pipeBuf, s, pipeEof, ptyOut, produced,
                 sendBuf, sighup, inRx, input, written, nextIn, result, fds>>
histVars    == <<sinceOut, sinceReq, sawOutput, replySends, startSends,
                 received, early, stream>>
vars        == <<sessionVars, chanVars, termVars, ptyVars, histVars>>

\* ------------------------------------------------------------- protocol.rs
\* pub struct Req { wait_first, wait_more, reply }: the reply sender is the
\* request's id, the channel itself lives in replyCh/replyVal.
Req(i, wf, wm) == [id |-> i, wait_first |-> wf, wait_more |-> wm]
\* pub struct Reply { lines, error }
Reply(l, e) == [lines |-> l, error |-> e]

NoReply == Reply(<<>>, None)

\* ------------------------------------------------------------------ helpers
\* (mutant) the superseded request is kept alive: its channel stays open
DropSender_Kept(ch, w) == ch

\* A oneshot Sender dropped without a send: the receiver sees the channel close.
DropSender(ch, w) ==
    IF w = None THEN ch
    ELSE [ch EXCEPT ![w[1].id] = IF @ = "open" THEN "closed" ELSE @]

\* Every Req still queued is dropped together with the request channel.
RECURSIVE DropQueued(_, _)
DropQueued(ch, q) ==
    IF q = <<>> THEN ch ELSE DropQueued(DropSender(ch, Some(Head(q))), Tail(q))

\* (mutant) the answer is built but never sent: the sender is kept
SendReply_Lost(ch, w) == ch

\* waiting.reply.send(answer)
SendReply(ch, w) == [ch EXCEPT ![w[1].id] = "value"]

\* (mutant) a chunk sent is dropped
send_Dropped(q, data) == q

\* output_tx.send(data).await, completed: the chunk is queued behind the others
send(q, data) == Append(q, data)

\* vt.feed_str(..): the interpreter's state is the output fed to it so far
feed_str(v, data) == Append(v, data)

\* (mutant) the capture is a blank grid
view_Blank(v) == <<>>

\* vt.view().to_vec(): a copy of the grid as it is now
view(v) == v

\* (mutant) the request is read without being taken out
take_Peek(w) == w

\* maybe_waiting.take() leaves None behind
take(w) == None

\* req_until = now + waiting.wait_more, where now was taken at the top of the
\* loop iteration (term.rs:27), before the select waited for the chunk
after_output(until, w, age) ==
    IF w # None THEN Max(w[1].wait_more - age, 0) ELSE until

\* (mutant) the first deadline uses the quiet period instead of wait_first
after_request_More(req) == req.wait_more

\* req_until = now + req.wait_first with now = Instant::now() (term.rs:64-66)
after_request(req) == req.wait_first

\* ---------------------------------------------------------- run_term (term.rs)
\* let now = Instant::now() at the top of the next loop iteration
LoopTop == since_now' = 0

\* Some(data) on the output queue
TermOutput ==
    /\ termPc = "run" /\ ~closed_output /\ outputQ # <<>>
    /\ vt' = feed_str(vt, Head(outputQ))
    /\ outputQ' = Tail(outputQ)
    /\ req_until' = after_output(req_until, maybe_waiting, since_now)
    /\ LoopTop
    /\ sinceOut' = 0 /\ sinceReq' = 0
    /\ sawOutput' = (maybe_waiting # None)
    /\ UNCHANGED <<sessionVars, ptyVars, startCh, inputQ, outTx, reqQ, reqTx,
                   replyCh, replyVal, cancelled, nextReq, termPc, maybe_waiting,
                   closed_output, replySends, startSends, received, stream, early>>

\* The reply both replying branches send (term.rs:46-55 and 81-90)
ReplyAndReset ==
    IF maybe_waiting # None
    THEN /\ replyVal' = [replyVal EXCEPT ![maybe_waiting[1].id] = Reply(view(vt), None)]
         /\ replyCh' = SendReply(replyCh, maybe_waiting)
         /\ replySends' = [replySends EXCEPT ![maybe_waiting[1].id] = @ + 1]
         /\ req_until' = NoDeadline
         /\ maybe_waiting' = take(maybe_waiting)
         /\ sinceOut' = 0 /\ sinceReq' = 0 /\ sawOutput' = FALSE
         /\ early' = (early \/ (~closed_output /\ req_until > 0))
    ELSE UNCHANGED <<replyVal, replyCh, replySends, req_until, maybe_waiting,
                     sinceOut, sinceReq, sawOutput, early>>

\* let (_, mut never_rx) = mpsc::channel(1) (term.rs:24): the pattern _ binds
\* nothing, so the Sender is dropped at the end of the statement and never_rx
\* is a closed, empty channel.  never_rx.recv() is ready at once, with None.
never_rx_closed == TRUE

\* None on the channel the output branch receives from (term.rs:32):
\* output_rx once every sender is gone and the queue is drained, and never_rx,
\* which the branch switches to once closed_output is set
recv_None ==
    IF closed_output THEN never_rx_closed ELSE outputQ = <<>> /\ ~outTx

TermOutputClosed ==
    /\ termPc = "run" /\ recv_None
    /\ closed_output' = TRUE
    /\ ReplyAndReset
    /\ LoopTop
    /\ UNCHANGED <<sessionVars, ptyVars, startCh, inputQ, outputQ, outTx, reqQ,
                   reqTx, cancelled, nextReq, termPc, vt, startSends, received, stream>>

\* Some(req) on the request queue
TermReq ==
    /\ termPc = "run" /\ reqQ # <<>>
    /\ req_until' = after_request(Head(reqQ))
    /\ replyCh' = DropSender(replyCh, maybe_waiting)
    /\ maybe_waiting' = Some(Head(reqQ))
    /\ reqQ' = Tail(reqQ)
    /\ LoopTop
    /\ sinceOut' = 0 /\ sinceReq' = 0 /\ sawOutput' = FALSE
    /\ UNCHANGED <<sessionVars, ptyVars, startCh, inputQ, outputQ, outTx, reqTx,
                   replyVal, cancelled, nextReq, termPc, closed_output, vt,
                   replySends, startSends, received, stream, early>>

\* The task ends: maybe_waiting, req_rx and output_rx are dropped
TermExit ==
    /\ termPc' = "done"
    /\ replyCh' = DropQueued(DropSender(replyCh, maybe_waiting), reqQ)
    /\ maybe_waiting' = None
    /\ reqQ' = <<>>
    /\ outputQ' = <<>>
    /\ sinceOut' = 0 /\ sinceReq' = 0 /\ sawOutput' = FALSE
    /\ UNCHANGED <<sessionVars, ptyVars, startCh, inputQ, outTx, reqTx, replyVal,
                   cancelled, nextReq, req_until, since_now, closed_output, vt,
                   replySends, startSends, received, stream, early>>

\* None on the request queue: break
TermReqClosed ==
    /\ termPc = "run" /\ reqQ = <<>> /\ ~reqTx
    /\ TermExit

\* (mutant) the Coordinator does not watch the token
token_cancelled_Never == FALSE

\* token.cancelled() is ready (term.rs:76)
token_cancelled == cancelled

\* token.cancelled(): break
TermCancelled ==
    /\ termPc = "run" /\ token_cancelled
    /\ TermExit

\* sleep(wait) with wait = req_until - now: over once the deadline has elapsed
TermSleep ==
    /\ termPc = "run" /\ req_until = 0
    /\ ReplyAndReset
    /\ LoopTop
    /\ UNCHANGED <<sessionVars, ptyVars, startCh, inputQ, outputQ, outTx, reqQ,
                   reqTx, cancelled, nextReq, termPc, closed_output, vt, startSends,
                   received, stream>>

TermStep ==
    \/ TermOutput \/ TermOutputClosed \/ TermReq \/ TermReqClosed
    \/ TermCancelled \/ TermSleep

\* ----------------------------------------------------------------- time
\* One unit of time passes while a request is pending.  Without one no
\* elapsed time is read before it is taken again: now when the request is
\* accepted, the two histories with it.  sinceOut runs from the first chunk
\* received for the request, sinceReq up to it.
Tick ==
    /\ termPc = "run" /\ maybe_waiting # None
    /\ req_until' = IF req_until = NoDeadline THEN NoDeadline ELSE Max(req_until - 1, 0)
    /\ since_now' = Min(since_now + 1, TimeCap)
    /\ sinceOut' = IF sawOutput THEN Min(sinceOut + 1, TimeCap) ELSE sinceOut
    /\ sinceReq' = IF sawOutput THEN sinceReq ELSE Min(sinceReq + 1, TimeCap)
    /\ UNCHANGED <<sessionVars, chanVars, ptyVars, termPc, maybe_waiting,
                   closed_output, vt, sawOutput, replySends, startSends,
                   received, stream, early>>

\* ------------------------------------------------ Terminal::settle (lib.rs)
Ret(op, res, msg) == [op |-> op, res |-> res, msg |-> msg]

\* (mutant) the call boundary lets every call through
not_started_Never(tx) == FALSE

\* let Some(ref tx) = self.<tx> else { return Err("not started") }
\* (lib.rs:165, 282, 342) and self.input_tx.is_none() (lib.rs:357)
not_started(tx) == tx = "None"

\* not started: usage error at the call boundary (lib.rs:165-167)
SettleNotStarted ==
    /\ callerPc = "idle" /\ not_started(req_tx)
    /\ last' = Ret("settle", "usage", "not started")
    /\ UNCHANGED <<cmd, keyBuf, req_tx, input_tx, token, lines, callerPc, myReq,
                   chanVars, termVars, ptyVars, histVars>>

\* req_tx.send(req).await succeeded; the caller now awaits reply_rx
SettleSend(wf, wm) ==
    /\ callerPc = "idle" /\ ~not_started(req_tx) /\ reqTx
    /\ termPc # "done" /\ Len(reqQ) < ReqCap /\ nextReq <= MaxReqs
    /\ reqQ' = Append(reqQ, Req(nextReq, wf, wm))
    /\ replyCh' = [replyCh EXCEPT ![nextReq] = "open"]
    /\ myReq' = Req(nextReq, wf, wm)
    /\ nextReq' = nextReq + 1
    /\ callerPc' = "settle_wait"
    /\ UNCHANGED <<cmd, keyBuf, req_tx, input_tx, token, lines, last, startCh, inputQ,
                   outputQ, outTx, reqTx, replyVal, cancelled, termVars, ptyVars,
                   histVars>>

\* req_tx.send(req).await failed: the Coordinator has dropped req_rx
SettleSendFails ==
    /\ callerPc = "idle" /\ ~not_started(req_tx) /\ reqTx /\ termPc = "done"
    /\ last' = Ret("settle", "os", "channel closed")
    /\ UNCHANGED <<cmd, keyBuf, req_tx, input_tx, token, lines, callerPc, myReq,
                   chanVars, termVars, ptyVars, histVars>>

\* (mutant) whatever came back is stored, also when no reply arrived
settle_lines_Always(old, ch, val) == Some(val.lines)

\* What settle() leaves in self.lines (lib.rs:181-188)
settle_lines(old, ch, val) ==
    IF ch = "value" /\ val.error = None THEN Some(val.lines) ELSE old

settle_ret(ch, val) ==
    IF ch = "closed" THEN Ret("settle", "os", "canceled")
    ELSE IF val.error # None THEN Ret("settle", "os", val.error[1])
    ELSE Ret("settle", "ok", "")

\* reply_rx.await resolved: a Reply, or the sender was dropped
SettleReturn ==
    /\ callerPc = "settle_wait" /\ replyCh[myReq.id] \in {"value", "closed"}
    /\ lines' = settle_lines(lines, replyCh[myReq.id], replyVal[myReq.id])
    /\ last' = settle_ret(replyCh[myReq.id], replyVal[myReq.id])
    /\ callerPc' = "idle"
    /\ myReq' = Req(0, 0, 0)
    /\ UNCHANGED <<cmd, keyBuf, req_tx, input_tx, token, chanVars, termVars, ptyVars,
                   histVars>>

\* ------------------------------------- the Coordinator's environment (harness)
\* The producer holding output_tx sends a chunk
EnvOutput ==
    /\ outTx /\ termPc # "done" /\ Len(outputQ) < OutCap /\ produced < MaxChunks
    /\ outputQ' = send(outputQ, produced + 1)
    /\ produced' = produced + 1
    /\ UNCHANGED <<sessionVars, termVars, histVars, startCh, inputQ, outTx, reqQ,
                   reqTx, replyCh, replyVal, cancelled, nextReq, ptyPc, child,
                   pipeW, pipeBuf, fds, s, pipeEof, ptyOut, sendBuf, sighup, inRx, input,
                   written, nextIn, result>>

\* The producer drops output_tx
EnvCloseOutput ==
    /\ outTx /\ termPc = "run"
    /\ outTx' = FALSE
    /\ UNCHANGED <<sessionVars, termVars, ptyVars, histVars, startCh, inputQ,
                   outputQ, reqQ, reqTx, replyCh, replyVal, cancelled, nextReq>>

\* Another holder of a request sender sends a request of its own
EnvSendReq(wf, wm) ==
    /\ reqTx /\ termPc # "done" /\ Len(reqQ) < ReqCap /\ nextReq <= MaxReqs
    /\ reqQ' = Append(reqQ, Req(nextReq, wf, wm))
    /\ replyCh' = [replyCh EXCEPT ![nextReq] = "open"]
    /\ nextReq' = nextReq + 1
    /\ UNCHANGED <<sessionVars, termVars, ptyVars, histVars, startCh, inputQ,
                   outputQ, outTx, reqTx, replyVal, cancelled>>

\* Every request sender is dropped
EnvDropReqTx ==
    /\ reqTx /\ callerPc = "idle" /\ termPc = "run"
    /\ reqTx' = FALSE
    /\ UNCHANGED <<sessionVars, termVars, ptyVars, histVars, startCh, inputQ,
                   outputQ, outTx, reqQ, replyCh, replyVal, cancelled, nextReq>>

\* A holder of the token cancels it
EnvCancel ==
    /\ ~cancelled /\ termPc = "run"
    /\ cancelled' = TRUE
    /\ UNCHANGED <<sessionVars, termVars, ptyVars, histVars, startCh, inputQ,
                   outputQ, outTx, reqQ, reqTx, replyCh, replyVal, nextReq>>

\* No descriptor is held
NoFds == [master |-> "none", pipe_in |-> "none", pipe_out |-> "none"]

\* unistd::close(fd), and the close() in the drop of a descriptor's owner
close(st) ==
    CASE st = "open"   -> "closed"
      [] st = "closed" -> "twice"
      [] OTHER         -> st

\* ------------------------------------------------------------ initial states
\* Terminal::py_new (lib.rs:108-124); nothing is running
Commands == {"ok", "enoent", "nul", "empty"}

InitCommon ==
    /\ token = "None" /\ lines = None /\ callerPc = "idle" /\ myReq = Req(0, 0, 0)
    /\ keyBuf = None
    /\ last = Ret("new", "ok", "")
    /\ inputQ = <<>> /\ outputQ = <<>> /\ reqQ = <<>>
    /\ replyCh = [i \in ReqIds |-> "none"]
    /\ replyVal = [i \in ReqIds |-> NoReply]
    /\ cancelled = FALSE /\ nextReq = 1
    /\ maybe_waiting = None /\ req_until = NoDeadline /\ since_now = 0
    /\ closed_output = FALSE /\ vt = <<>>
    /\ pipeW = "none" /\ pipeBuf = "" /\ s = "" /\ pipeEof = FALSE
    /\ fds = NoFds
    /\ ptyOut = <<>> /\ produced = 0 /\ sendBuf = None /\ sighup = FALSE
    /\ input = <<>> /\ written = <<>> /\ nextIn = 1
    /\ result = "none"
    /\ sinceOut = 0 /\ sinceReq = 0 /\ sawOutput = FALSE
    /\ replySends = [i \in ReqIds |-> 0] /\ startSends = 0
    /\ received = <<>> /\ early = FALSE /\ stream = <<>>

\* run_term as started by a session whose start() succeeded; the pump's side
\* of the output queue, the token and further request senders are held by
\* the environment.
InitTerm ==
    /\ InitCommon
    /\ cmd = "ok" /\ req_tx = "Some" /\ input_tx = "Some"
    /\ startCh = "taken" /\ outTx = TRUE /\ reqTx = TRUE
    /\ termPc = "run" /\ ptyPc = "env" /\ child = "running" /\ inRx = TRUE

\* run_term with everything around it played by the environment
NextTerm ==
    \/ TermOutput \/ TermOutputClosed \/ TermReq \/ TermReqClosed
    \/ TermCancelled \/ TermSleep
    \/ Tick
    \/ EnvOutput \/ EnvCloseOutput
    \/ \E wf \in Waits, wm \in Waits : EnvSendReq(wf, wm)
    \/ EnvDropReqTx \/ EnvCancel

SpecTerm == InitTerm /\ [][NextTerm]_vars

\* run_term with Terminal::settle as its only client
NextSettle ==
    \/ TermOutput \/ TermOutputClosed \/ TermReq \/ TermCancelled \/ TermSleep
    \/ Tick
    \/ \E wf \in Waits, wm \in Waits : SettleSend(wf, wm)
    \/ SettleSendFails
    \/ SettleReturn
    \/ EnvOutput \/ EnvCloseOutput \/ EnvCancel

SpecSettle == InitTerm /\ [][NextSettle]_vars

\* ------------------------------------------- Terminal::start, stop, input
\* (mutant) start() never refuses
already_started_Never(rtx) == FALSE

\* !self.req_tx.is_none() (lib.rs:128, 137)
already_started(rtx) == rtx # "None"

\* start()/__enter__ on a started session (lib.rs:128-130, 137-139)
StartAlready ==
    /\ callerPc = "idle" /\ already_started(req_tx)
    /\ last' = Ret("start", "usage", "already started")
    /\ UNCHANGED <<cmd, keyBuf, req_tx, input_tx, token, lines, callerPc, myReq,
                   chanVars, termVars, ptyVars, histVars>>

\* do_start up to block_on: both tasks are spawned with clones of a new token,
\* input_tx and req_tx are stored; the token itself is stored nowhere
Start ==
    /\ callerPc = "idle" /\ ~already_started(req_tx)
    /\ ptyPc' = "spawned" /\ termPc' = "run"
    /\ outTx' = TRUE /\ reqTx' = TRUE /\ inRx' = TRUE
    /\ startCh' = "empty"
    /\ input_tx' = "Some" /\ req_tx' = "Some"
    /\ callerPc' = "start_wait"
    /\ UNCHANGED <<cmd, keyBuf, token, lines, myReq, last, inputQ, outputQ, reqQ, replyCh,
                   replyVal, cancelled, nextReq, maybe_waiting, req_until,
                   since_now, closed_output, vt, child, pipeW, pipeBuf, fds, s, pipeEof,
                   ptyOut, produced, sendBuf, sighup, input, written, nextIn,
                   result, histVars>>

\* start_rx.await resolved (lib.rs:92-97)
start_ret(ch, msg) ==
    IF ch = "ok" THEN Ret("start", "ok", "") ELSE Ret("start", "launch", msg)

StartReturn ==
    /\ callerPc = "start_wait" /\ startCh \in {"ok", "err"}
    /\ last' = start_ret(startCh, s)
    /\ startCh' = "taken"
    /\ callerPc' = "idle"
    /\ UNCHANGED <<cmd, keyBuf, req_tx, input_tx, token, lines, myReq, inputQ, outputQ,
                   outTx, reqQ, reqTx, replyCh, replyVal, cancelled, nextReq,
                   termVars, ptyVars, histVars>>

\* do_stop: cancels the token held in the field Terminal.token, if any
do_stop(tok, c) == IF tok = "Some" THEN TRUE ELSE c

StopNotStarted ==
    /\ callerPc = "idle" /\ not_started(input_tx)
    /\ last' = Ret("stop", "usage", "not started")
    /\ UNCHANGED <<cmd, keyBuf, req_tx, input_tx, token, lines, callerPc, myReq,
                   chanVars, termVars, ptyVars, histVars>>

Stop ==
    /\ callerPc = "idle" /\ ~not_started(input_tx)
    /\ cancelled' = do_stop(token, cancelled)
    /\ last' = Ret("stop", "ok", "")
    /\ UNCHANGED <<cmd, keyBuf, req_tx, input_tx, token, lines, callerPc, myReq, startCh,
                   inputQ, outputQ, outTx, reqQ, reqTx, replyCh, replyVal, nextReq,
                   termVars, ptyVars, histVars>>

InputNotStarted ==
    /\ callerPc = "idle" /\ not_started(input_tx)
    /\ last' = Ret("input", "usage", "not started")
    /\ UNCHANGED <<cmd, keyBuf, req_tx, input_tx, token, lines, callerPc, myReq,
                   chanVars, termVars, ptyVars, histVars>>

\* keys() on a session that was not started (lib.rs:342-344)
KeysNotStarted ==
    /\ callerPc = "idle" /\ not_started(input_tx)
    /\ last' = Ret("keys", "usage", "not started")
    /\ UNCHANGED <<cmd, keyBuf, req_tx, input_tx, token, lines, callerPc, myReq,
                   chanVars, termVars, ptyVars, histVars>>

\* The bytes of the k-th input chunk
InputData(k) == <<2 * k - 1, 2 * k>>

\* input_tx.send(data).await succeeded: the queue had room
Input ==
    /\ callerPc = "idle" /\ ~not_started(input_tx) /\ inRx /\ nextIn <= MaxInputs
    /\ Len(inputQ) < InCap
    /\ inputQ' = Append(inputQ, InputData(nextIn))
    /\ nextIn' = nextIn + 1
    /\ last' = Ret("input", "ok", "")
    /\ UNCHANGED <<cmd, keyBuf, req_tx, input_tx, token, lines, callerPc, myReq, startCh,
                   outputQ, outTx, reqQ, reqTx, replyCh, replyVal, cancelled,
                   nextReq, termVars, ptyPc, child, pipeW, pipeBuf, fds, s, pipeEof,
                   ptyOut, produced, sendBuf, sighup, inRx, input, written, result,
                   histVars>>

\* input_tx.send(data).await failed: the pump has dropped input_rx
InputFails ==
    /\ callerPc = "idle" /\ ~not_started(input_tx) /\ ~inRx
    /\ last' = Ret("input", "os", "channel closed")
    /\ UNCHANGED <<cmd, keyBuf, req_tx, input_tx, token, lines, callerPc, myReq,
                   chanVars, termVars, ptyVars, histVars>>

\* ----------------------------------------------------------- Terminal::keys
\* The key specifications a caller passes: a named key, and the caret control
\* notation on a character that is not an ASCII letter (not a supported key)
KeySpecs  == {"Enter", "^1"}
NamedKeys == {"Enter"}

\* The UTF-8 bytes of a text
utf8(text) ==
    CASE text = "Enter" -> <<69, 110, 116, 101, 114>>
      [] text = "^1"    -> <<94, 49>>

\* keys::parse_key: String -> InputSeq.  A specification that matches no
\* supported key is kept as text ("the text is sent to the process as is",
\* lib.rs:296-299); the result is an InputSeq in every case, keys() collects
\* the results into a Vec<InputSeq> (lib.rs:347).
parse_key(k) ==
    IF k \in NamedKeys THEN [seq |-> "Key", val |-> k]
    ELSE [seq |-> "Standard", val |-> k]

\* keys::seqs_to_bytes on a single item: the bytes a terminal sends for the
\* key, the UTF-8 bytes of a text unchanged
seqs_to_bytes(sq) ==
    IF sq.seq = "Standard" THEN utf8(sq.val)
    ELSE CASE sq.val = "Enter" -> <<13>>

\* keys([k]) on a started session: input_tx.send(data).await succeeded at
\* once, the queue had room
Keys(k) ==
    /\ callerPc = "idle" /\ ~not_started(input_tx) /\ inRx /\ nextIn <= MaxKeys
    /\ Len(inputQ) < InCap
    /\ inputQ' = Append(inputQ, seqs_to_bytes(parse_key(k)))
    /\ nextIn' = nextIn + 1
    /\ last' = Ret("keys", "ok", "")
    /\ UNCHANGED <<cmd, keyBuf, req_tx, input_tx, token, lines, callerPc, myReq, startCh,
                   outputQ, outTx, reqQ, reqTx, replyCh, replyVal, cancelled,
                   nextReq, termVars, ptyPc, child, pipeW, pipeBuf, fds, s, pipeEof,
                   ptyOut, produced, sendBuf, sighup, inRx, input, written, result,
                   histVars>>

\* input_tx.send(data).await failed: the pump has dropped input_rx
KeysFails ==
    /\ callerPc = "idle" /\ ~not_started(input_tx) /\ ~inRx
    /\ last' = Ret("keys", "os", "channel closed")
    /\ UNCHANGED <<cmd, keyBuf, req_tx, input_tx, token, lines, callerPc, myReq,
                   chanVars, termVars, ptyVars, histVars>>

\* keys([k]) on a started session whose input queue is full: the calling
\* thread is suspended in input_tx.send(data).await (lib.rs:346-352)
KeysBlocks(k) ==
    /\ callerPc = "idle" /\ ~not_started(input_tx) /\ inRx /\ nextIn <= MaxKeys
    /\ Len(inputQ) >= InCap
    /\ callerPc' = "keys_wait"
    /\ keyBuf' = Some(seqs_to_bytes(parse_key(k)))
    /\ UNCHANGED <<cmd, req_tx, input_tx, token, lines, myReq, last, chanVars,
                   termVars, ptyVars, histVars>>

\* The pump has taken a chunk from the input queue: the suspended send
\* completes and keys() returns
KeysResumes ==
    /\ callerPc = "keys_wait" /\ inRx /\ Len(inputQ) < InCap
    /\ inputQ' = Append(inputQ, keyBuf[1])
    /\ keyBuf' = None
    /\ nextIn' = nextIn + 1
    /\ callerPc' = "idle"
    /\ last' = Ret("keys", "ok", "")
    /\ UNCHANGED <<cmd, req_tx, input_tx, token, lines, myReq, startCh,
                   outputQ, outTx, reqQ, reqTx, replyCh, replyVal, cancelled,
                   nextReq, termVars, ptyPc, child, pipeW, pipeBuf, fds, s, pipeEof,
                   ptyOut, produced, sendBuf, sighup, inRx, input, written, result,
                   histVars>>

\* The pump has dropped input_rx: the suspended send fails and keys() raises
KeysWakesClosed ==
    /\ callerPc = "keys_wait" /\ ~inRx
    /\ keyBuf' = None
    /\ callerPc' = "idle"
    /\ last' = Ret("keys", "os", "channel closed")
    /\ UNCHANGED <<cmd, req_tx, input_tx, token, lines, myReq, chanVars,
                   termVars, ptyVars, histVars>>

\* ------------------------------------------------------- the child process
\* exec(command) in the forked child (pty.rs:197-204): what it evaluates to.
\*   "ok"      execvp replaces the process image
\*   "enoent"  execvp returns an Errno
\*   "nul"     CString::new fails on an argument holding a NUL byte
\*   "empty"   command is the empty vector: &command[0] panics
exec(c) ==
    CASE c = "ok"     -> [res |-> "execed", msg |-> ""]
      [] c = "enoent" -> [res |-> "Err", msg |-> "ENOENT: No such file or directory"]
      [] c = "nul"    -> [res |-> "Err", msg |-> "nul byte found in provided data"]
      [] c = "empty"  -> [res |-> "panic", msg |-> ""]

\* ForkResult::Child (pty.rs:73-85).  On success the close-on-exec write end
\* closes with the old image; Err(e) is written to the pipe before _exit(1);
\* a panic leaves the match without writing, and the write end closes when
\* pipe_out is dropped by the unwinding (or with the process on abort).
ChildExec ==
    /\ child = "forked"
    /\ pipeBuf' = exec(cmd).msg
    /\ pipeW' = "closed"
    /\ child' = CASE exec(cmd).res = "execed" -> "running"
                  [] exec(cmd).res = "Err"    -> "zombie"
                  [] exec(cmd).res = "panic"  -> "stray"
    /\ UNCHANGED <<sessionVars, chanVars, termVars, histVars, ptyPc, s, pipeEof, fds,
                   ptyOut, produced, sendBuf, sighup, inRx, input, written, nextIn,
                   result>>

\* The program that was exec'ed writes to its terminal.  (What a child that
\* never exec'ed writes reaches the pump in the same way and is left out.)
ChildWrite ==
    /\ child = "running" /\ produced < MaxChunks
    /\ ptyPc \in {"forked", "decided", "select", "drain", "sending"}
    /\ ptyOut' = Append(ptyOut, produced + 1)
    /\ produced' = produced + 1
    /\ UNCHANGED <<sessionVars, chanVars, termVars, histVars, ptyPc, child, pipeW,
                   pipeBuf, fds, s, pipeEof, sendBuf, sighup, inRx, input, written,
                   nextIn, result>>

\* The child exits by itself, or is terminated by the SIGHUP sent to it
ChildExit ==
    /\ child \in {"running", "stray"}
    /\ child' = "zombie"
    /\ UNCHANGED <<sessionVars, chanVars, termVars, histVars, ptyPc, pipeW,
                   pipeBuf, fds, s, pipeEof, ptyOut, produced, sendBuf, sighup, inRx,
                   input, written, nextIn, result>>

\* ------------------------------------------------------------ run_pty (pty.rs)
\* pipe() and forkpty() (pty.rs:49-51); the parent closes the descriptor of
\* pipe_out by its number (pty.rs:57), pipe_out itself stays its owner
PtyFork ==
    /\ ptyPc = "spawned"
    /\ child' = "forked" /\ pipeW' = "open"
    /\ fds' = [master |-> "open", pipe_in |-> "open", pipe_out |-> close("open")]
    /\ ptyPc' = "forked"
    /\ UNCHANGED <<sessionVars, chanVars, termVars, histVars, pipeBuf, s, pipeEof,
                   ptyOut, produced, sendBuf, sighup, inRx, input, written, nextIn,
                   result>>

\* reader.read_to_string(&mut s) returns at EOF, that is once the write end
\* is closed everywhere.  A non-empty s makes spawn return Err, which drops
\* input_rx, output_tx and the master.  In both cases spawn returns: reader
\* (the owner of pipe_in) and pipe_out are dropped, each closing its
\* descriptor.
PtyReadPipe ==
    /\ ptyPc = "forked" /\ pipeW = "closed"
    /\ s' = pipeBuf /\ pipeEof' = TRUE
    /\ ptyPc' = "decided"
    /\ outTx' = (pipeBuf = "") /\ inRx' = (pipeBuf = "")
    /\ fds' = [master   |-> IF pipeBuf = "" THEN fds.master ELSE close(fds.master),
               pipe_in  |-> close(fds.pipe_in),
               pipe_out |-> close(fds.pipe_out)]
    /\ UNCHANGED <<sessionVars, termVars, histVars, startCh, inputQ, outputQ, reqQ,
                   reqTx, replyCh, replyVal, cancelled, nextReq, child, pipeW,
                   pipeBuf, ptyOut, produced, sendBuf, sighup, input, written,
                   nextIn, result>>

\* if s.is_empty() { Ok(drive_child(..)) } else { Err(ExecError{message: s}) }
start_outcome(str) == IF str = "" THEN "ok" ELSE "err"

\* start_tx.send(..) (pty.rs:224-233); on Ok the pump starts
PtyReportStart ==
    /\ ptyPc = "decided"
    /\ startCh' = start_outcome(s)
    /\ startSends' = startSends + 1
    /\ ptyPc' = IF start_outcome(s) = "ok" THEN "select" ELSE "done"
    /\ UNCHANGED <<sessionVars, termVars, inputQ, outputQ, outTx, reqQ, reqTx,
                   replyCh, replyVal, cancelled, nextReq, child, pipeW, pipeBuf, fds, s,
                   pipeEof, ptyOut, produced, sendBuf, sighup, inRx, input, written,
                   nextIn, result, sinceOut, sinceReq, sawOutput, replySends,
                   received, stream, early>>

\* input.extend_from_slice(&data) (pty.rs:124)
extend_from_slice(inp, data) == inp \o data

\* input_rx.recv() = Some(data)
PumpRecvInput ==
    /\ ptyPc = "select" /\ inputQ # <<>>
    /\ input' = extend_from_slice(input, Head(inputQ))
    /\ received' = received \o Head(inputQ)
    /\ inputQ' = Tail(inputQ)
    /\ UNCHANGED <<sessionVars, termVars, startCh, outputQ, outTx, reqQ, reqTx,
                   replyCh, replyVal, cancelled, nextReq, ptyPc, child, pipeW,
                   pipeBuf, fds, s, pipeEof, ptyOut, produced, sendBuf, sighup, inRx,
                   written, nextIn, result, sinceOut, sinceReq, sawOutput,
                   replySends, startSends, stream, early>>

\* nbio::read = Some(n), n > 0: the chunk goes to output_tx.send(..).await
PumpRead ==
    /\ ptyPc \in {"select", "drain"} /\ ptyOut # <<>>
    /\ sendBuf' = Some(Head(ptyOut))
    /\ ptyOut' = Tail(ptyOut)
    /\ ptyPc' = "sending"
    /\ UNCHANGED <<sessionVars, chanVars, termVars, histVars, child, pipeW,
                   pipeBuf, fds, s, pipeEof, produced, sighup, inRx, input, written,
                   nextIn, result>>

\* output_tx.send(..).await completes once the queue has room; the inner read
\* loop goes on
PumpSend ==
    /\ ptyPc = "sending" /\ termPc # "done" /\ Len(outputQ) < OutCap
    /\ outputQ' = send(outputQ, sendBuf[1])
    /\ sendBuf' = None
    /\ ptyPc' = "drain"
    /\ UNCHANGED <<sessionVars, termVars, histVars, startCh, inputQ, outTx, reqQ,
                   reqTx, replyCh, replyVal, cancelled, nextReq, child, pipeW,
                   pipeBuf, fds, s, pipeEof, ptyOut, produced, sighup, inRx, input,
                   written, nextIn, result>>

\* nbio::read = None (would block): guard.clear_ready(), back to the select
PumpWouldBlock ==
    /\ ptyPc = "drain" /\ ptyOut = <<>> /\ child \in {"running", "stray"}
    /\ ptyPc' = "select"
    /\ UNCHANGED <<sessionVars, chanVars, termVars, histVars, child, pipeW,
                   pipeBuf, fds, s, pipeEof, ptyOut, produced, sendBuf, sighup, inRx,
                   input, written, nextIn, result>>

\* do_drive_child returns r: output_tx and input_rx are dropped, and so are
\* master_fd and master_file, two owners of the one master descriptor
\* (File::from_raw_fd(master.as_raw_fd()) and AsyncFd::new(master),
\* pty.rs:116-117): each closes it
PumpReturn(r) ==
    /\ result' = r
    /\ ptyPc' = "exited"
    /\ outTx' = FALSE /\ inRx' = FALSE
    /\ sendBuf' = None
    /\ fds' = [fds EXCEPT !.master = close(close(@))]
    /\ UNCHANGED <<sessionVars, termVars, histVars, startCh, inputQ, outputQ, reqQ,
                   reqTx, replyCh, replyVal, cancelled, nextReq, child, pipeW,
                   pipeBuf, s, pipeEof, ptyOut, produced, sighup, input, written,
                   nextIn>>

\* The slave side is closed and drained: nbio::read gives Some(0), or fails
\* (a Linux pty master reports EIO after the last close of the slave)
PumpEof ==
    /\ ptyPc \in {"select", "drain"} /\ ptyOut = <<>> /\ child = "zombie"
    /\ \E r \in {"Ok", "Err"} : PumpReturn(r)

\* (mutant) the buffer is cleared whatever is left to write
drain_All(inp, left) == <<>>

\* if left == 0 { input.clear() } else { input.drain(..input.len() - left) }
\* (pty.rs:179-185)
drain(inp, left) ==
    IF left = 0 THEN <<>> ELSE SubSeq(inp, Len(inp) - left + 1, Len(inp))

\* master writable and input not empty (pty.rs:154-186).  The inner loop
\* writes buf[..n] in one or more nbio::write calls until buf is empty or a
\* write would block, leaving left = buf.len() bytes for the next writable
\* event.
PumpWritable ==
    /\ ptyPc = "select" /\ input # <<>>
    /\ \E left \in 0..(Len(input) - 1) :
        /\ written' = written \o SubSeq(input, 1, Len(input) - left)
        /\ input' = drain(input, left)
    /\ UNCHANGED <<sessionVars, chanVars, termVars, histVars, ptyPc, child, pipeW,
                   pipeBuf, fds, s, pipeEof, ptyOut, produced, sendBuf, sighup, inRx,
                   nextIn, result>>

\* (mutant) the loop's exit is followed by the wait alone, no signal is sent
PtyKill_Skipped ==
    /\ ptyPc = "exited"
    /\ ptyPc' = "waitpid"
    /\ UNCHANGED <<sessionVars, chanVars, termVars, histVars, child, pipeW,
                   pipeBuf, fds, s, pipeEof, ptyOut, produced, sendBuf, sighup, inRx,
                   input, written, nextIn, result>>

\* libc::kill(child, SIGHUP) (pty.rs:97)
PtyKill ==
    /\ ptyPc = "exited"
    /\ sighup' = TRUE
    /\ ptyPc' = "waitpid"
    /\ UNCHANGED <<sessionVars, chanVars, termVars, histVars, child, pipeW,
                   pipeBuf, fds, s, pipeEof, ptyOut, produced, sendBuf, inRx, input,
                   written, nextIn, result>>

\* waitpid(child) in spawn_blocking returns once the child has terminated
PtyReap ==
    /\ ptyPc = "waitpid" /\ child = "zombie"
    /\ child' = "reaped"
    /\ ptyPc' = "done"
    /\ UNCHANGED <<sessionVars, chanVars, termVars, histVars, pipeW, pipeBuf, fds, s,
                   pipeEof, ptyOut, produced, sendBuf, sighup, inRx, input, written,
                   nextIn, result>>

\* token.cancelled() in the pump's select (pty.rs:188-190): break, Ok(())
PumpCancelled ==
    /\ ptyPc = "select" /\ cancelled
    /\ PumpReturn("Ok")

\* (mutant) the error of a failed send is ignored and the read loop goes on
PumpSendFails_Ignored ==
    /\ ptyPc = "sending" /\ termPc = "done"
    /\ sendBuf' = None
    /\ ptyPc' = "drain"
    /\ UNCHANGED <<sessionVars, chanVars, termVars, histVars, child, pipeW,
                   pipeBuf, fds, s, pipeEof, ptyOut, produced, sighup, inRx, input,
                   written, nextIn, result>>

\* output_tx.send(..).await fails, the Coordinator has dropped output_rx: the
\* error leaves do_drive_child through ? (pty.rs:143)
PumpSendFails ==
    /\ ptyPc = "sending" /\ termPc = "done"
    /\ PumpReturn("Err")

\* input_rx.recv() = None (pty.rs:127-129): every input sender is gone and
\* the queue is drained; return Ok(())
PumpInputClosed ==
    /\ ptyPc = "select" /\ inputQ = <<>> /\ input_tx = "Dropped"
    /\ PumpReturn("Ok")

\* master writable and input not empty, the slave side closed: nbio::write
\* gives Some(0) (return Ok(()), pty.rs:160-162) or fails (pty.rs:159)
PumpWriteEnds ==
    /\ ptyPc = "select" /\ input # <<>> /\ child = "zombie"
    /\ \E r \in {"Ok", "Err"} : PumpReturn(r)

\* The Terminal object is dropped: its input and request senders go with it
\* (lib.rs:47-48) and no call can be made any more
EnvDropTerminal ==
    /\ callerPc = "idle" /\ input_tx = "Some"
    /\ callerPc' = "dropped"
    /\ input_tx' = "Dropped" /\ req_tx' = "Dropped"
    /\ reqTx' = FALSE
    /\ UNCHANGED <<cmd, keyBuf, token, lines, myReq, last, startCh, inputQ, outputQ,
                   outTx, reqQ, replyCh, replyVal, cancelled, nextReq, termVars,
                   ptyVars, histVars>>

\* ------------------------------------------------------- the pump (harness)
\* The pump of a session whose start() has returned success: the child runs,
\* keys() is the client of the input queue, the Coordinator consumes the
\* output queue, and the token is held by the environment.
InitPump ==
    /\ cmd = "ok" /\ req_tx = "Some" /\ input_tx = "Some" /\ token = "None"
    /\ lines = None /\ callerPc = "idle" /\ myReq = Req(0, 0, 0) /\ keyBuf = None
    /\ last = Ret("start", "ok", "")
    /\ startCh = "taken" /\ inputQ = <<>> /\ outputQ = <<>> /\ reqQ = <<>>
    /\ outTx = TRUE /\ reqTx = TRUE /\ inRx = TRUE
    /\ replyCh = [i \in ReqIds |-> "none"]
    /\ replyVal = [i \in ReqIds |-> NoReply]
    /\ cancelled = FALSE /\ nextReq = 1
    /\ termPc = "run" /\ maybe_waiting = None /\ req_until = NoDeadline
    /\ since_now = 0 /\ closed_output = FALSE /\ vt = <<>>
    /\ ptyPc = "select" /\ child = "running"
    /\ pipeW = "closed" /\ pipeBuf = "" /\ s = "" /\ pipeEof = TRUE
    /\ fds = [master |-> "open", pipe_in |-> "closed", pipe_out |-> "twice"]
    /\ ptyOut = <<>> /\ produced = 0 /\ sendBuf = None /\ sighup = FALSE
    /\ input = <<>> /\ written = <<>> /\ nextIn = 1 /\ result = "none"
    /\ sinceOut = 0 /\ sinceReq = 0 /\ sawOutput = FALSE
    /\ replySends = [i \in ReqIds |-> 0] /\ startSends = 1
    /\ received = <<>> /\ early = FALSE /\ stream = <<>>

NextPump ==
    \/ \E k \in KeySpecs : Keys(k)
    \/ KeysFails
    \/ \E k \in KeySpecs : KeysBlocks(k)
    \/ KeysResumes \/ KeysWakesClosed
    \/ ChildWrite \/ ChildExit
    \/ PumpRecvInput \/ PumpRead \/ PumpSend \/ PumpWouldBlock \/ PumpEof
    \/ PumpWritable \/ PumpCancelled \/ PumpSendFails
    \/ PumpInputClosed \/ PumpWriteEnds
    \/ PtyKill \/ PtyReap
    \/ TermOutput \/ TermCancelled
    \/ EnvCancel \/ EnvDropTerminal

SpecPump == InitPump /\ [][NextPump]_vars

\* ------------------------------------------- the output path, byte by byte
\* The bytes a child writes: an ASCII letter, and the lead and the
\* continuation byte of a two-byte character (0xC3 0xA9)
ByteSet == {97, 195, 169}

\* Every byte sequence of length 1..n
ByteSeqs(n) == UNION {[1..k -> ByteSet] : k \in 1..n}

\* U+FFFD REPLACEMENT CHARACTER
REPLACEMENT == 65533

IsCont(b) == b >= 128 /\ b <= 191

\* String::from_utf8_lossy(&data) (term.rs:35) on bytes below 0xE0, as a
\* sequence of code points: an ASCII byte is itself, a lead byte 0xC2..0xDF
\* followed by a continuation byte is one two-byte character, and every other
\* byte (a lead at the end of data or before a non-continuation, a
\* continuation on its own, 0xC0, 0xC1) becomes U+FFFD.
RECURSIVE from_utf8_lossy(_)
from_utf8_lossy(data) ==
    IF data = <<>> THEN <<>>
    ELSE IF data[1] < 128
        THEN <<data[1]>> \o from_utf8_lossy(Tail(data))
    ELSE IF data[1] >= 194 /\ data[1] <= 223 /\ Len(data) >= 2 /\ IsCont(data[2])
        THEN <<(data[1] - 192) * 64 + (data[2] - 128)>>
                 \o from_utf8_lossy(Tail(Tail(data)))
    ELSE <<REPLACEMENT>> \o from_utf8_lossy(Tail(data))

\* nbio::read = Some(n) on the master and output_tx.send(buf[0..n]).await
\* (pty.rs:137-143): a read returns any non-empty prefix of what the child
\* has written, and that prefix is one chunk of the output queue
ReadChunk(n) ==
    /\ ptyPc = "select" /\ termPc = "run"
    /\ n <= Len(ptyOut) /\ Len(outputQ) < OutCap
    /\ outputQ' = send(outputQ, SubSeq(ptyOut, 1, n))
    /\ ptyOut' = SubSeq(ptyOut, n + 1, Len(ptyOut))
    /\ stream' = stream \o SubSeq(ptyOut, 1, n)
    /\ UNCHANGED <<sessionVars, termVars, startCh, inputQ, outTx, reqQ, reqTx,
                   replyCh, replyVal, cancelled, nextReq, ptyPc, child, pipeW,
                   pipeBuf, fds, s, pipeEof, produced, sendBuf, sighup, inRx,
                   input, written, nextIn, result, sinceOut, sinceReq, sawOutput,
                   replySends, startSends, received, early>>

\* output_rx.recv() = Some(data): vt.feed_str(&String::from_utf8_lossy(&data))
\* (term.rs:32-35); vt is the text the interpreter was fed, as code points
FeedChunk ==
    /\ termPc = "run" /\ ~closed_output /\ outputQ # <<>>
    /\ vt' = vt \o from_utf8_lossy(Head(outputQ))
    /\ outputQ' = Tail(outputQ)
    /\ UNCHANGED <<sessionVars, ptyVars, histVars, startCh, inputQ, outTx, reqQ,
                   reqTx, replyCh, replyVal, cancelled, nextReq, termPc,
                   maybe_waiting, req_until, since_now, closed_output>>

\* A started session with no request pending, whose child has written a
\* byte stream that the pump has yet to read
InitFeed ==
    /\ cmd = "ok" /\ req_tx = "Some" /\ input_tx = "Some" /\ token = "None"
    /\ lines = None /\ callerPc = "idle" /\ myReq = Req(0, 0, 0) /\ keyBuf = None
    /\ last = Ret("start", "ok", "")
    /\ startCh = "taken" /\ inputQ = <<>> /\ outputQ = <<>> /\ reqQ = <<>>
    /\ outTx = TRUE /\ reqTx = TRUE /\ inRx = TRUE
    /\ replyCh = [i \in ReqIds |-> "none"]
    /\ replyVal = [i \in ReqIds |-> NoReply]
    /\ cancelled = FALSE /\ nextReq = 1
    /\ termPc = "run" /\ maybe_waiting = None /\ req_until = NoDeadline
    /\ since_now = 0 /\ closed_output = FALSE /\ vt = <<>>
    /\ ptyPc = "select" /\ child = "running"
    /\ pipeW = "closed" /\ pipeBuf = "" /\ s = "" /\ pipeEof = TRUE
    /\ fds = [master |-> "open", pipe_in |-> "closed", pipe_out |-> "twice"]
    /\ ptyOut \in ByteSeqs(MaxBytes)
    /\ produced = 1 /\ sendBuf = None /\ sighup = FALSE
    /\ input = <<>> /\ written = <<>> /\ nextIn = 1 /\ result = "none"
    /\ sinceOut = 0 /\ sinceReq = 0 /\ sawOutput = FALSE
    /\ replySends = [i \in ReqIds |-> 0] /\ startSends = 1
    /\ received = <<>> /\ early = FALSE /\ stream = <<>>

NextFeed ==
    \/ \E n \in 1..MaxBytes : ReadChunk(n)
    \/ FeedChunk

SpecFeed == InitFeed /\ [][NextFeed]_vars

\* --------------------------------------------------------- the whole session
Init ==
    /\ InitCommon
    /\ cmd \in Commands
    /\ req_tx = "None" /\ input_tx = "None"
    /\ startCh = "none" /\ outTx = FALSE /\ reqTx = FALSE /\ inRx = FALSE
    /\ termPc = "none" /\ ptyPc = "none" /\ child = "none"

\* The branches on token.cancelled() (term.rs:76, pty.rs:188), on a closed
\* request or input queue and on a failed output send are steps of the
\* harnesses only: no call of a session makes them fire.
Next ==
    \/ StartAlready \/ Start \/ StartReturn
    \/ SettleNotStarted
    \/ \E wf \in Waits, wm \in Waits : SettleSend(wf, wm)
    \/ SettleReturn
    \/ StopNotStarted \/ Stop
    \/ InputNotStarted \/ Input \/ InputFails
    \/ KeysNotStarted
    \/ ChildExec \/ ChildWrite \/ ChildExit
    \/ PtyFork \/ PtyReadPipe \/ PtyReportStart
    \/ PumpRecvInput \/ PumpRead \/ PumpSend \/ PumpWouldBlock \/ PumpEof
    \/ PumpWritable \/ PtyKill \/ PtyReap
    \/ TermOutput \/ TermOutputClosed \/ TermReq \/ TermSleep
    \/ Tick

Spec == Init /\ [][Next]_vars

\* Fairness of the Coordinator: the runtime runs the task whenever a branch
\* of its select is ready (which ready branch is taken is not promised), and
\* time passes.
FairSpecTerm == SpecTerm /\ WF_vars(TermStep) /\ WF_vars(Tick)

\* Fairness of the output path: the runtime polls a task whose awaited event
\* has happened, so a chunk waiting in the output queue is received by a
\* running Coordinator, and a send suspended on the queue completes once
\* there is room, or fails once the receiver is gone.
FairSpecPump ==
    SpecPump /\ WF_vars(TermOutput) /\ WF_vars(PumpSend) /\ WF_vars(PumpSendFails)

\* =================================================================== claims
IsPrefix(a, b) == Len(a) <= Len(b) /\ SubSeq(b, 1, Len(a)) = a

Pending(i) == maybe_waiting # None /\ maybe_waiting[1].id = i

\* This step sends a reply to request i
RepliesTo(i) == replySends'[i] # replySends[i]

\* This step sends a reply from the deadline branch while the output source is
\* open (the output-closed branch is the only other one that replies, and it
\* sets closed_output)
DeadlineReply(i) == RepliesTo(i) /\ ~closed_output'

\* C4  Latest-wins.  When a request is accepted while request p is pending,
\* p's reply channel closes without a value; a closed channel stays closed and
\* never carries a reply; and whenever a reply is sent it goes to the request
\* that is pending, the latest one accepted.
C4_LatestWins ==
    [][\A p \in ReqIds :
          /\ (Pending(p) /\ maybe_waiting' # None /\ maybe_waiting'[1].id # p)
                => (replyCh'[p] = "closed" /\ replySends'[p] = 0)
          /\ (replyCh[p] = "closed")
                => (replyCh'[p] = "closed" /\ replySends'[p] = replySends[p])
          /\ RepliesTo(p) => Pending(p)]_vars

\* C4 witness: the Coordinator is running uncancelled, the first request was
\* superseded (closed, never replied to) and the second has its reply.
C4_Witness ==
    /\ termPc = "run" /\ ~cancelled
    /\ replyCh[1] = "closed" /\ replySends[1] = 0
    /\ replyCh[2] = "value" /\ replySends[2] = 1

\* C5  At most one reply per request: no request is sent two replies, and a
\* request that was replied to holds its reply and is no longer pending.
C5_AtMostOneReply ==
    \A i \in ReqIds :
        /\ replySends[i] <= 1
        /\ replySends[i] = 1 => (replyCh[i] = "value" /\ ~Pending(i))

\* C5 witness: both requests were replied to, and the output source has been
\* seen closed since (so both replying branches have had their chance).
C5_Witness ==
    /\ replySends[1] = 1 /\ replySends[2] = 1 /\ closed_output /\ termPc = "run"

\* C6 as stated: a request is answered unless the Coordinator is cancelled
\* first.  So while the Coordinator runs and the token has not fired, no
\* request's reply channel has closed without a value.
C6_Original ==
    \A i \in ReqIds : (replyCh[i] = "closed" /\ termPc = "run") => cancelled

\* C6 amended.  A request's reply channel closes without a value only when a
\* newer request supersedes the pending one or when the Coordinator exits
\* (cancellation, or every request sender dropped); and every request created
\* is eventually resolved, by its reply or by such a close: none stays
\* pending for ever once output has stopped (output is finite here).
C6_AnsweredOrSuperseded ==
    /\ [][\A i \in ReqIds :
            (replyCh'[i] = "closed" /\ replyCh[i] # "closed")
               => \/ termPc' = "done"
                  \/ Pending(i) /\ maybe_waiting' # None /\ maybe_waiting'[1].id # i]_vars
    /\ \A i \in ReqIds : (replyCh[i] = "open") ~> (replyCh[i] \in {"value", "closed"})

\* C6 witness: a request that received output while pending has been answered
\* while the Coordinator keeps running.
C6_Witness ==
    /\ termPc = "run" /\ ~cancelled /\ reqTx
    /\ replySends[1] = 1 /\ replyVal[1].lines # <<>> /\ ~closed_output

\* C7 as stated: a reply sent by the deadline branch for a request that
\* received output while pending is sent only when at least wait_more has
\* elapsed since the last chunk was received.
C7_Claim ==
    [][\A i \in ReqIds :
          (DeadlineReply(i) /\ sawOutput)
             => sinceOut >= maybe_waiting[1].wait_more]_vars

C10_GridImmutable ==
    [][/\ (lines' # lines)
            => /\ callerPc = "settle_wait" /\ callerPc' = "idle"
               /\ replyCh[myReq.id] = "value" /\ replyVal[myReq.id].error = None
               /\ lines' = Some(replyVal[myReq.id].lines)
               /\ last'.res = "ok"
               /\ lines # None
                    => (IsPrefix(lines[1], lines'[1]) /\ Len(lines[1]) < Len(lines'[1]))
       /\ \A i \in ReqIds : RepliesTo(i) => replyVal'[i].lines = vt]_vars

\* C10 witness: a snapshot is stored, output was fed to the terminal after
\* its capture, and a later settle() has failed: the snapshot is still the
\* old one.
C10_Witness ==
    /\ lines # None /\ lines[1] # vt
    /\ last.op = "settle" /\ last.res = "os"

\* start() has returned success / a launch error
StartSucceeded == startCh = "taken" /\ s = ""
StartFailed    == startCh = "taken" /\ s # ""

\* C1 as stated: when the exec of the command fails (the child never becomes
\* the program), no success is sent as the start outcome and start() does not
\* return success.
C1_Claim ==
    (exec(cmd).res # "execed")
       => /\ startCh # "ok"
          /\ ~(last.op = "start" /\ last.res = "ok")

\* C2 as stated: once start() has returned a launch error, no snapshot is
\* stored and settle() has not returned success.
C2_Claim ==
    StartFailed => (lines = None /\ ~(last.op = "settle" /\ last.res = "ok"))

\* C3 as stated: when stop() has returned on a session whose start()
\* succeeded and whose child is still running, the cancellation signal has
\* fired.
C3_Claim ==
    (StartSucceeded /\ child = "running" /\ last.op = "stop" /\ last.res = "ok")
       => cancelled

\* C9 as stated: a settle() that returns after waiting wait_first > 0 while
\* the running program has produced no output at all has given up without a
\* snapshot: the stored snapshot is what it was.
C9_Claim ==
    [][(/\ callerPc = "settle_wait" /\ callerPc' = "idle"
        /\ StartSucceeded /\ child = "running" /\ produced = 0
        /\ myReq.wait_first > 0)
          => lines' = lines]_vars

\* The session was never started: nothing of it exists
NeverStarted ==
    /\ req_tx = "None" /\ input_tx = "None" /\ token = "None"
    /\ termPc = "none" /\ ptyPc = "none" /\ child = "none"

\* C11  Not started.  On a session that was never started settle(), input(),
\* keys() and stop() each return the usage error 'not started' and change
\* nothing else: no queue receives anything, no task and no child exists, the
\* token has not fired and no snapshot is stored.
C11_NotStarted ==
    /\ [](NeverStarted =>
            /\ inputQ = <<>> /\ reqQ = <<>> /\ outputQ = <<>>
            /\ ~cancelled /\ lines = None /\ nextReq = 1 /\ nextIn = 1
            /\ last.op \in {"settle", "input", "keys", "stop"}
                  => (last.res = "usage" /\ last.msg = "not started"))
    /\ [][(NeverStarted /\ last' # last
              /\ last'.op \in {"settle", "input", "keys", "stop"})
            => /\ last' = Ret(last'.op, "usage", "not started")
               /\ UNCHANGED <<cmd, req_tx, input_tx, token, lines, callerPc, myReq,
                              chanVars, termVars, ptyVars, histVars>>]_vars

\* C11 witness: stop() has just failed on a session that was never started
C11_Witness ==
    NeverStarted /\ last = Ret("stop", "usage", "not started")

\* C12  Already started.  start() on a session that was started before (its
\* request sender is stored) returns the usage error 'already started' and
\* changes nothing else; the two tasks are spawned and a child is forked only
\* from the state in which none exists, so each is created at most once.
C12_StartOnce ==
    [][/\ (req_tx # "None" /\ callerPc = "idle" /\ last' # last /\ last'.op = "start")
            => /\ last' = Ret("start", "usage", "already started")
               /\ UNCHANGED <<cmd, req_tx, input_tx, token, lines, callerPc, myReq,
                              chanVars, termVars, ptyVars, histVars>>
       /\ (callerPc = "idle" /\ callerPc' = "start_wait")
            => (termPc = "none" /\ ptyPc = "none" /\ child = "none")
       /\ (termPc' = "run" /\ termPc # "run") => termPc = "none"
       /\ (ptyPc' = "spawned" /\ ptyPc # "spawned") => ptyPc = "none"
       /\ (child' = "forked" /\ child # "forked") => child = "none"]_vars

\* C12 witness: start() was refused while the child of the first start runs
C12_Witness ==
    /\ last = Ret("start", "usage", "already started")
    /\ child = "running" /\ termPc = "run" /\ ptyPc = "select"

\* C13 as stated: once the pump has ended with an I/O error, a reply sent to
\* a settle request carries that error: no error-free reply is sent for the
\* dead session.
C13_Claim ==
    [][\A i \in ReqIds :
          (RepliesTo(i) /\ result = "Err") => replyVal'[i].error # None]_vars

\* C14 as stated: keys() called with a specification that is not a supported
\* key returns a usage error and queues no bytes.
C14_Claim ==
    [][\A k \in KeySpecs \ NamedKeys :
          Keys(k) => (last'.res = "usage" /\ inputQ' = inputQ)]_vars

\* C19  Pump write path.  While the pump loop runs, the bytes written to the
\* pty master followed by the pending write buffer are exactly the bytes of
\* the input chunks received, in arrival order: the bytes written are a prefix
\* of them and the buffer holds the rest.  What was written stays written.
C19_WritePath ==
    /\ [](ptyPc \in {"select", "drain", "sending"}
            => (written \o input = received /\ IsPrefix(written, received)))
    /\ [][IsPrefix(written, written') /\ IsPrefix(received, received')]_vars

\* C19 witness: two chunks were received, the write of the first was partial
\* and a part of the received bytes is still pending.
C19_Witness ==
    /\ ptyPc = "select" /\ nextIn > 2 /\ inputQ = <<>>
    /\ Len(written) = 1 /\ Len(input) >= 2 /\ written[1] = 94

\* C15  Output closes while a request is pending.  In the step in which the
\* Coordinator finds the output source closed, the pending request is sent
\* exactly one reply, the terminal state as it is with no error, the pending
\* request is cleared and the deadline is reset to no deadline, whatever time
\* was left to the deadline; and that step is possible at once: the branch is
\* ready as soon as the source is closed and drained, deadline elapsed or not.
C15_ClosedReplies ==
    /\ [][\A i \in ReqIds :
            (Pending(i) /\ ~closed_output /\ closed_output')
               => /\ replySends[i] = 0 /\ replySends'[i] = 1
                  /\ \A j \in ReqIds \ {i} : replySends'[j] = replySends[j]
                  /\ replyCh'[i] = "value"
                  /\ replyVal'[i] = Reply(vt, None)
                  /\ maybe_waiting' = None
                  /\ req_until' = NoDeadline]_vars
    /\ [](termPc = "run" /\ ~closed_output /\ ~outTx /\ outputQ = <<>>
            => ENABLED TermOutputClosed)

\* C15 witness: the only request so far was pending when the output source
\* was found closed and has its reply, sent with time left to the deadline and
\* carrying the output fed before; nothing is pending, no deadline is set.
C15_Witness ==
    /\ termPc = "run" /\ closed_output /\ early /\ nextReq = 2
    /\ replySends[1] = 1 /\ replyCh[1] = "value"
    /\ replyVal[1] = Reply(vt, None) /\ vt # <<>>
    /\ maybe_waiting = None /\ req_until = NoDeadline

\* C16 as stated: once the output source has been found closed, a request
\* accepted afterwards is replied to only by the deadline branch, that is no
\* earlier than wait_first after its acceptance.
C16_Claim ==
    [][\A i \in ReqIds :
          (RepliesTo(i) /\ closed_output)
             => sinceReq >= maybe_waiting[1].wait_first]_vars

\* No branch of the Coordinator's select has an event of its own: no chunk
\* and no closure of the output source is there to be received, no request is
\* queued and the request channel is open, the token has not fired and the
\* deadline has not elapsed.
NothingToDo ==
    /\ termPc = "run"
    /\ outputQ = <<>> /\ (outTx \/ closed_output)
    /\ reqQ = <<>> /\ reqTx
    /\ ~cancelled
    /\ req_until # 0

\* C17 as stated: with nothing to do the Coordinator is suspended, no step
\* of its loop is possible, also after the output source has closed.
C17_Claim == NothingToDo => ~ENABLED TermStep

\* C18 as stated: once the cancellation signal has fired no reply is sent.
C18_Original ==
    [][cancelled => replySends' = replySends]_vars

\* C18 amended.  Once the signal has fired the exit branch is ready and the
\* loop exits, after serving at most the branches that were ready with it (a
\* reply can still be sent then).  A request pending when the loop exits has
\* its reply slot dropped without a reply, and no reply is sent after the
\* exit.
C18_ExitsOnCancel ==
    /\ [](termPc = "run" /\ cancelled => ENABLED TermCancelled)
    /\ [][(termPc = "run" /\ termPc' = "done")
            => /\ replySends' = replySends
               /\ \A i \in ReqIds :
                     Pending(i) => (replyCh'[i] = "closed" /\ replySends[i] = 0)]_vars
    /\ [][termPc = "done" => (replySends' = replySends /\ replyCh' = replyCh)]_vars
    /\ (cancelled ~> termPc = "done")

\* C18 witness: the loop has exited on the signal while the only request,
\* accepted and with its deadline still set, was pending: its channel is closed
\* and it was sent no reply.
C18_Witness ==
    /\ cancelled /\ termPc = "done" /\ reqTx
    /\ nextReq = 2 /\ req_until # NoDeadline
    /\ replyCh[1] = "closed" /\ replySends[1] = 0

\* The chunks the child has written, in order
Iota(n) == [k \in 1..n |-> k]

\* C20  Pump output path.  While the Coordinator runs, the chunks fed to the
\* interpreter, followed by those in the output queue and by the one the pump
\* is sending, are exactly the chunks read from the pty master, in read order:
\* what was fed is a prefix of what was read, nothing read is dropped.  The
\* queue never holds more than its capacity, and on a full queue the send
\* does not complete: the pump stays suspended in it.
C20_OutputPath ==
    /\ [](termPc = "run"
            => /\ vt \o outputQ \o sendBuf = Iota(produced - Len(ptyOut))
               /\ IsPrefix(vt, Iota(produced - Len(ptyOut)))
               /\ Len(outputQ) <= OutCap)
    /\ [](ptyPc = "sending" /\ Len(outputQ) = OutCap => ~ENABLED PumpSend)
    /\ [][IsPrefix(vt, vt')]_vars

\* C20 witness: the pump is suspended in the send of the second chunk on a
\* full queue, the first chunk not yet received by the Coordinator.
C20_Witness ==
    /\ termPc = "run" /\ ptyPc = "sending"
    /\ Len(outputQ) = OutCap /\ outputQ = <<1>> /\ sendBuf = Some(2)

\* The pump loop has exited (do_drive_child has returned)
LoopExited == result # "none"

\* C21  After the loop.  Whatever made the loop exit, the supervisor sends
\* SIGHUP to the child only after the exit, reaps the child only after the
\* signal was sent, and has completed only when the child is reaped; the
\* result it holds from the exit to its completion is the loop's own.
C21_KillThenReap ==
    /\ [](LoopExited <=> ptyPc \in {"exited", "waitpid", "done"})
    /\ [](ptyPc = "waitpid" => sighup)
    /\ []((LoopExited /\ ptyPc = "done") => (sighup /\ child = "reaped"))
    /\ [][/\ (sighup' /\ ~sighup) => (LoopExited /\ child # "reaped")
          /\ (child' = "reaped" /\ child # "reaped") => (sighup /\ ptyPc' = "done")
          /\ LoopExited => result' = result]_vars

\* C21 witness: the loop was ended by the failing send to the output queue
\* the Coordinator had dropped; the child was signalled and reaped and the
\* supervisor has completed with the loop's error.
C21_Witness ==
    /\ termPc = "done" /\ ptyPc = "done" /\ result = "Err"
    /\ sighup /\ child = "reaped"

\* C22 as stated: no descriptor of the supervisor is closed twice, and when
\* the supervisor has completed every descriptor it acquired is released.
C22_Claim ==
    /\ \A f \in DOMAIN fds : fds[f] # "twice"
    /\ ptyPc = "done" => \A f \in DOMAIN fds : fds[f] \in {"none", "closed"}

\* C23 as stated: every forked child is reaped by the supervisor, also the
\* child whose exec failed: once run_pty has completed no forked child is
\* left unreaped.
C23_Claim == ptyPc = "done" => child \in {"none", "reaped"}

\* C24 as stated: once the whole byte stream has been read and fed, the
\* text the interpreter received chunk by chunk is the lossy UTF-8 decoding of
\* the whole stream, however the reads split it.
C24_Claim ==
    (ptyOut = <<>> /\ outputQ = <<>>) => vt = from_utf8_lossy(stream)

\* A step of the pump task
PumpStep ==
    \/ PumpRecvInput \/ PumpRead \/ PumpSend \/ PumpWouldBlock \/ PumpEof
    \/ PumpWritable \/ PumpCancelled \/ PumpSendFails \/ PumpInputClosed
    \/ PumpWriteEnds

\* C25: no deadlock among the pump, the Coordinator and a caller.  A pump
\* suspended on the output queue waits for the Coordinator only: while the
\* Coordinator runs, either it can receive a chunk or the send can complete,
\* and once it has exited the send can fail.  A caller suspended in keys()
\* waits for the pump only: the pump can take a step, or the caller can
\* return.  A send that ends after the Coordinator has exited ends the pump
\* with an error, and every suspended send does end.
C25_NoDeadlock ==
    /\ [](ptyPc = "sending" =>
            IF termPc = "run" THEN ENABLED TermOutput \/ ENABLED PumpSend
            ELSE ENABLED PumpSendFails)
    /\ [](callerPc = "keys_wait" =>
            \/ ENABLED PumpStep \/ ENABLED TermOutput
            \/ ENABLED KeysResumes \/ ENABLED KeysWakesClosed)
    /\ [][(ptyPc = "sending" /\ termPc = "done" /\ ptyPc' # "sending")
            => (ptyPc' = "exited" /\ result' = "Err" /\ ~inRx')]_vars
    /\ (ptyPc = "sending") ~> (ptyPc # "sending")

\* The pump is suspended on a full output queue while a caller is suspended
\* in keys() on a full input queue, the Coordinator running
C25_Witness ==
    /\ ptyPc = "sending" /\ Len(outputQ) = OutCap /\ termPc = "run"
    /\ callerPc = "keys_wait" /\ Len(inputQ) = InCap

====
